---- MODULE Spec2Model ----
(***************************************************************************)
(* Model of the envsubst parameter-expansion parser: the scanner           *)
(* (scanner.read/unread/skip/peek/scan ...) and the recursive-descent      *)
(* parser (Tree.parseAny, Tree.parseFunc, ...).                            *)
(*                                                                         *)
(* The buffer is a sequence of bytes.  A byte is written as a string: an   *)
(* ASCII byte by its character, and "NL" (newline), "BS" (backslash),      *)
(* "NUL" (the zero byte), "C3" and "A9" (the two bytes of the UTF-8        *)
(* encoding of U+00E9).  A rune is written the same way, with "E9" for     *)
(* U+00E9 and "RuneError" for U+FFFD.                                      *)
(***************************************************************************)
EXTENDS Integers, Sequences, FiniteSets, TLC

VARIABLES input, sc, stack, ret, pc, Root, err, calls

vars == <<input, sc, stack, ret, pc, Root, err, calls>>

----------------------------------------------------------------------------
(* Bounds of the checked input families.                                   *)

MaxTextLen == 4

MaxArgPieces == 3

MaxTailLen == 2

MaxChain == 3

\* the depth to which expansions are nested in arguments
MaxDepth == 2

\* the number of Parse calls a caller makes in a row, each on the text the
\* call before it returned
MaxCalls == 2

----------------------------------------------------------------------------
(* Runes and UTF-8 decoding.                                               *)

\* var eof = rune(0)
eof == "NUL"

\* utf8.DecodeRuneInString(s.buf[s.pos:]) for a non-empty rest: the rune
\* and its width in bytes.  pos is the 0-based byte offset.
DecodeRuneInString(buf, pos) ==
    LET b == buf[pos + 1] IN
    IF b = "C3"
    THEN IF pos + 2 <= Len(buf) /\ buf[pos + 2] = "A9"
         THEN [r |-> "E9", w |-> 2]
         ELSE [r |-> "RuneError", w |-> 1]
    ELSE IF b = "A9"
         THEN [r |-> "RuneError", w |-> 1]
         ELSE [r |-> b, w |-> 1]

\* unicode.IsLetter on the runes of the model
IsLetter(r) == r \in {"a", "b", "E9"}

\* unicode.IsDigit on the runes of the model
IsDigit(r) == r \in {"1"}

----------------------------------------------------------------------------
(* Acceptance predicates (acceptFunc), selected by name.                   *)

\* acceptRune, had it stopped at a closing brace as acceptNotClosing does
acceptRuneNotClosing(r, i) == r # "}"

acceptRune(r, i) == TRUE

\* acceptIdent, had it taken the dash as a character of a name
acceptIdentOrDash(r, i) == IsLetter(r) \/ IsDigit(r) \/ r = "_" \/ r = "-"

acceptIdent(r, i) == IsLetter(r) \/ IsDigit(r) \/ r = "_"

acceptColon(r, i) == r = ":"

acceptOneHash(r, i) == r = "#" /\ i = 1

acceptNotClosing(r, i) == r # "}"

acceptHashFunc(r, i) == r = "#" /\ i < 3

acceptPercentFunc(r, i) == r = "%" /\ i < 3

acceptDefaultFunc(r, i) ==
    \/ i = 1 /\ r = ":"
    \/ i = 2 /\ r \in {"=", "-", "?", "+"}

acceptReplaceFunc(r, i) ==
    \/ i = 1 /\ r = "/"
    \/ i = 2 /\ r \in {"/", "#", "%"}

acceptOneEqual(r, i) == i = 1 /\ r = "="

acceptOneColon(r, i) == i = 1 /\ r = ":"

rejectColonClose(r, i) == r # ":" /\ r # "}"

acceptSlash(r, i) == r = "/"

acceptNotSlash(r, i) == r # "/"

acceptCasingFunc(r, i) == r \in {",", "^"} /\ i < 3

\* s.accept(r, i): the call through the scanner's accept field
Accept(f, r, i) ==
    CASE f = "acceptRune" -> acceptRune(r, i)
      [] f = "acceptIdent" -> acceptIdent(r, i)
      [] f = "acceptColon" -> acceptColon(r, i)
      [] f = "acceptOneHash" -> acceptOneHash(r, i)
      [] f = "acceptNotClosing" -> acceptNotClosing(r, i)
      [] f = "acceptHashFunc" -> acceptHashFunc(r, i)
      [] f = "acceptPercentFunc" -> acceptPercentFunc(r, i)
      [] f = "acceptDefaultFunc" -> acceptDefaultFunc(r, i)
      [] f = "acceptReplaceFunc" -> acceptReplaceFunc(r, i)
      [] f = "acceptOneEqual" -> acceptOneEqual(r, i)
      [] f = "acceptOneColon" -> acceptOneColon(r, i)
      [] f = "rejectColonClose" -> rejectColonClose(r, i)
      [] f = "acceptSlash" -> acceptSlash(r, i)
      [] f = "acceptNotSlash" -> acceptNotSlash(r, i)
      [] f = "acceptCasingFunc" -> acceptCasingFunc(r, i)

----------------------------------------------------------------------------
(* The scanner.  A scanner value is a record of the struct's fields; mode  *)
(* is the set of mode bits that are set.                                   *)

\* scanner.init
\* the element of a one-element set.  An intermediate result of the scanner
\* is bound as the element of {result} and handed on, so that it is
\* evaluated once however often the code that follows reads it.
The(S) == CHOOSE x \in S : TRUE

init(buf) ==
    [buf |-> buf, pos |-> 0, start |-> 0, width |-> 0, mode |-> {},
     line |-> 1, accept |-> "nil"]

\* scanner.read: the scanner after the call and the rune returned
read(s) ==
    IF s.pos >= Len(s.buf)
    THEN [s |-> [s EXCEPT !.width = 0], r |-> eof]
    ELSE LET d == DecodeRuneInString(s.buf, s.pos) IN
         [s |-> [s EXCEPT !.width = d.w,
                          !.pos = s.pos + d.w,
                          !.line = IF d.r = "NL" THEN s.line + 1 ELSE s.line],
          r |-> d.r]

\* scanner.unread
unread(s) == [s EXCEPT !.pos = s.pos - s.width]

\* scanner.skip: s.buf = s.buf[:s.pos-1] + s.buf[s.pos:]
skip(s) ==
    [s EXCEPT !.buf = SubSeq(s.buf, 1, s.pos - 1)
                      \o SubSeq(s.buf, s.pos + 1, Len(s.buf))]

\* scanner.peek, after its call of read: ln is the line saved before it
peekRestore(ln, rd) ==
    [s |-> unread(IF rd.s.line # ln
                  THEN [rd.s EXCEPT !.line = rd.s.line - (rd.s.line - ln)]
                  ELSE rd.s),
     r |-> rd.r]

\* scanner.peek: the scanner after the call and the rune returned
peek(s) == The({peekRestore(s.line, rd) : rd \in {read(s)}})

\* scanner.string
string(s) == SubSeq(s.buf, s.start + 1, s.pos)

\* scanner.context
context(s) ==
    LET contextLen == 10
        st == IF s.start - contextLen > 0 THEN s.start - contextLen ELSE s.start
        p == IF s.pos + contextLen < Len(s.buf) THEN s.pos + contextLen ELSE s.pos
    IN SubSeq(s.buf, st + 1, p)

\* scanner.scanLbrack, after its call of read
scanLbrackNext(rd) ==
    IF rd.r = "{"
    THEN [s |-> rd.s, ok |-> TRUE]
    ELSE [s |-> unread(rd.s), ok |-> FALSE]

\* scanner.scanLbrack: the scanner after the call and the result
scanLbrack(s, r) ==
    IF "scanLbrack" \notin s.mode
    THEN [s |-> s, ok |-> FALSE]
    ELSE IF r = "$"
         THEN The({scanLbrackNext(rd) : rd \in {read(s)}})
         ELSE [s |-> s, ok |-> FALSE]

\* scanner.scanRbrack
scanRbrack(s, r) ==
    IF "scanRbrack" \notin s.mode THEN FALSE ELSE r = "}"

\* scanEscaped for r = '$', had it never reported the pair as escaped
scanEscapedDollarNever(pk) == [s |-> pk.s, ok |-> FALSE]

\* scanner.scanEscaped for r = '$', after its call of peek: when the next
\* rune is no '$' the function goes on to "if r != '\\' return false"
scanEscapedDollar(pk) == [s |-> pk.s, ok |-> pk.r = "$"]

\* scanEscaped for r = '\\', had it taken every next rune as escapable
scanEscapedBackslashAny(pk) == [s |-> pk.s, ok |-> pk.r # eof]

\* scanEscaped for r = '\\', had it taken only the slash as escapable
scanEscapedBackslashSlashOnly(pk) == [s |-> pk.s, ok |-> pk.r = "/"]

\* scanner.scanEscaped for r = '\\', after its call of peek
scanEscapedBackslash(pk) == [s |-> pk.s, ok |-> pk.r \in {"/", "BS"}]

\* scanner.scanEscaped: the scanner after the call and the result
scanEscaped(s, r) ==
    IF "scanEscape" \notin s.mode
    THEN [s |-> s, ok |-> FALSE]
    ELSE IF r = "$"
         THEN The({scanEscapedDollar(pk) : pk \in {peek(s)}})
         ELSE IF r # "BS"
              THEN [s |-> s, ok |-> FALSE]
              ELSE The({scanEscapedBackslash(pk) : pk \in {peek(s)}})

RECURSIVE scanIdentLoop(_)

\* the loop of scanner.scanIdent, after scanEscaped(r)
scanIdentEscaped(r, es) ==
    IF es.ok
    THEN scanIdentLoop(skip(es.s))
    ELSE IF ~Accept(es.s.accept, r, es.s.pos - es.s.start)
         THEN unread(es.s)
         ELSE scanIdentLoop(es.s)

\* the loop of scanner.scanIdent, after scanLbrack(r)
scanIdentLbrack(r, lb) ==
    IF lb.ok
    THEN unread(unread(lb.s))
    ELSE The({scanIdentEscaped(r, es) : es \in {scanEscaped(lb.s, r)}})

\* the loop of scanner.scanIdent, after its call of read
scanIdentRead(rd) ==
    IF rd.r = eof
    THEN unread(rd.s)
    ELSE The({scanIdentLbrack(rd.r, lb) : lb \in {scanLbrack(rd.s, rd.r)}})

\* the loop of scanner.scanIdent, from the top of one iteration: the
\* scanner when the loop is left
scanIdentLoop(s) == The({scanIdentRead(rd) : rd \in {read(s)}})

\* scanIdent, had it put a rejected first rune back and reported an
\* identifier all the same
scanIdentFirstEmpty(r, es) ==
    IF es.ok
    THEN [s |-> scanIdentLoop(skip(es.s)), ok |-> TRUE]
    ELSE IF ~Accept(es.s.accept, r, es.s.pos - es.s.start)
         THEN [s |-> unread(es.s), ok |-> TRUE]
         ELSE [s |-> scanIdentLoop(es.s), ok |-> TRUE]

\* scanner.scanIdent, after scanEscaped(r) on the first rune
scanIdentFirst(r, es) ==
    IF es.ok
    THEN [s |-> scanIdentLoop(skip(es.s)), ok |-> TRUE]
    ELSE IF ~Accept(es.s.accept, r, es.s.pos - es.s.start)
         THEN [s |-> es.s, ok |-> FALSE]
         ELSE [s |-> scanIdentLoop(es.s), ok |-> TRUE]

\* scanner.scanIdent: the scanner after the call and the result
scanIdent(s, r) ==
    IF "scanIdent" \notin s.mode
    THEN [s |-> s, ok |-> FALSE]
    ELSE The({scanIdentFirst(r, es) : es \in {scanEscaped(s, r)}})

\* scanner.scan, the last case of the switch
scanToken(id) ==
    [s |-> id.s, tok |-> IF id.ok THEN "tokenIdent" ELSE "tokenIllegal"]

\* scanner.scan, after scanLbrack(r)
scanSwitch(r, lb) ==
    IF lb.ok
    THEN [s |-> lb.s, tok |-> "tokenLbrack"]
    ELSE IF scanRbrack(lb.s, r)
         THEN [s |-> lb.s, tok |-> "tokenRbrack"]
         ELSE The({scanToken(id) : id \in {scanIdent(lb.s, r)}})

\* scanner.scan, after its call of read
scanRead(rd) ==
    IF rd.r = eof
    THEN [s |-> rd.s, tok |-> "tokenEOF"]
    ELSE The({scanSwitch(rd.r, lb) : lb \in {scanLbrack(rd.s, rd.r)}})

\* scanner.scan: the scanner after the call and the token returned
scan(s) == The({scanRead(rd) : rd \in {read([s EXCEPT !.start = s.pos])}})

----------------------------------------------------------------------------
(* Nodes and errors.                                                       *)

\* the nil Node
NilNode == [type |-> "nil"]

\* the empty sentinel node
empty == [type |-> "Empty"]

\* newTextNode
newTextNode(text) == [type |-> "Text", Value |-> text]

\* newFuncNode, and new(FuncNode) with Param set
newFuncNode(name) == [type |-> "Func", Param |-> name, Name |-> <<>>, Args |-> <<>>]

\* new(FuncNode)
zeroFuncNode == [type |-> "Func", Param |-> <<>>, Name |-> <<>>, Args |-> <<>>]

\* newListNode
newListNode(left, right) == [type |-> "List", Nodes |-> <<left, right>>]

\* the nil error
NilErr == [kind |-> "nil"]

\* errors.New / fmt.Errorf without verbs
errorsNew(msg) == [kind |-> "errorString", msg |-> msg]

\* var ErrBadSubstitution = errors.New("bad substitution")
ErrBadSubstitution == errorsNew("bad substitution")

\* &ErrParse{lineNumber: ..., context: ..., err: ...}
ErrParse(lineNumber, ctx, e) ==
    [kind |-> "ErrParse", lineNumber |-> lineNumber, context |-> ctx, err |-> e]

----------------------------------------------------------------------------
(* The call stack of the parser.  A frame is one active call of a Tree     *)
(* method: its name, the point it has reached, and its parameters and      *)
(* locals.                                                                 *)

Frame(fn, at, node, name, accept, mode, r) ==
    [fn |-> fn, at |-> at, node |-> node, name |-> name,
     accept |-> accept, mode |-> mode, r |-> r]

\* a call of a method with no parameters
Call0(fn) == Frame(fn, "entry", NilNode, <<>>, "nil", {}, "none")

\* a call of a method taking the parameter name
CallName(fn, name) == Frame(fn, "entry", NilNode, name, "nil", {}, "none")

\* a call of parseParam(accept, mode)
CallParam(accept, mode) == Frame("parseParam", "entry", NilNode, <<>>, accept, mode, "none")

\* a call of parseRemoveFunc(name, accept)
CallRemove(name, accept) == Frame("parseRemoveFunc", "entry", NilNode, name, accept, {}, "none")

NoRet == [node |-> NilNode, err |-> NilErr]

top == stack[Len(stack)]

rest == SubSeq(stack, 1, Len(stack) - 1)

Running(fn) == pc = "parsing" /\ stack # <<>> /\ top.fn = fn

\* return (node, e) to the caller
Return(s, node, e) ==
    /\ sc' = s
    /\ stack' = rest
    /\ ret' = [node |-> node, err |-> e]

\* continue in the same call at another point
Goto(s, f) ==
    /\ sc' = s
    /\ stack' = Append(rest, f)
    /\ ret' = NoRet

\* call callee; the caller resumes as frame f
Invoke(s, f, callee) ==
    /\ sc' = s
    /\ stack' = rest \o <<f, callee>>
    /\ ret' = NoRet

\* return callee(...): the callee returns to this call's caller
TailCall(s, callee) ==
    /\ sc' = s
    /\ stack' = Append(rest, callee)
    /\ ret' = NoRet

\* Tree.consumeRbrack, after its call of scan
consumeRbrackToken(sn) ==
    [s |-> sn.s, err |-> IF sn.tok # "tokenRbrack" THEN ErrBadSubstitution ELSE NilErr]

\* Tree.consumeRbrack: the scanner after the call and the error returned
consumeRbrack(s) ==
    The({consumeRbrackToken(sn) : sn \in {scan([s EXCEPT !.mode = {"scanRbrack"}])}})

----------------------------------------------------------------------------
(* The parser: one action per Tree method.  A step of a method runs it     *)
(* from the point it has reached up to its next call into the scanner      *)
(* or into another method, or to its return.                               *)

\* Parse / Tree.Parse
Parse ==
    /\ UNCHANGED <<input, calls>>
    /\ IF pc = "start"
       THEN /\ sc' = init(input)
            /\ stack' = <<Call0("parseAny")>>
            /\ ret' = NoRet
            /\ pc' = "parsing"
            /\ UNCHANGED <<Root, err>>
       ELSE /\ pc = "parsing" /\ stack = <<>>
            /\ Root' = ret.node
            /\ err' = ret.err
            /\ pc' = "done"
            /\ UNCHANGED <<sc, stack, ret>>

\* the switch of parseAny, had it lost its "case right == empty"
parseAnyJoinNoEmpty(left) ==
    IF ret.err.kind # "nil"
    THEN Return(sc, NilNode, ret.err)
    ELSE Return(sc, newListNode(left, ret.node), NilErr)

\* the switch after "right, err := t.parseAny()" in parseAny
parseAnyJoin(left) ==
    IF ret.err.kind # "nil"
    THEN Return(sc, NilNode, ret.err)
    ELSE IF ret.node.type = "Empty"
         THEN Return(sc, left, NilErr)
         ELSE Return(sc, newListNode(left, ret.node), NilErr)

\* Tree.parseAny
parseAny ==
    /\ Running("parseAny")
    /\ UNCHANGED <<input, pc, Root, err, calls>>
    /\ CASE top.at = "entry" ->
              LET sn == scan([sc EXCEPT !.accept = "acceptRune",
                                        !.mode = {"scanIdent", "scanLbrack", "scanEscape"}])
              IN CASE sn.tok = "tokenIdent" ->
                        Invoke(sn.s,
                               [top EXCEPT !.at = "right", !.node = newTextNode(string(sn.s))],
                               Call0("parseAny"))
                   [] sn.tok = "tokenEOF" -> Return(sn.s, empty, NilErr)
                   [] sn.tok = "tokenLbrack" ->
                        Invoke(sn.s, [top EXCEPT !.at = "left"], Call0("parseFunc"))
                   [] OTHER -> Return(sn.s, NilNode, ErrBadSubstitution)
         [] top.at = "left" ->
              IF ret.err.kind # "nil"
              THEN Return(sc, NilNode, ret.err)
              ELSE Invoke(sc, [top EXCEPT !.at = "right", !.node = ret.node],
                          Call0("parseAny"))
         [] top.at = "right" -> parseAnyJoin(top.node)

\* the dispatch on the rune after the variable name in parseFunc
parseFuncDispatch(r, name) ==
    CASE r = ":" -> CallName("parseDefaultOrSubstr", name)
      [] r = "=" -> CallName("parseDefaultFunc", name)
      [] r \in {",", "^"} -> CallName("parseCasingFunc", name)
      [] r = "/" -> CallName("parseReplaceFunc", name)
      [] r = "#" -> CallRemove(name, "acceptHashFunc")
      [] r = "%" -> CallRemove(name, "acceptPercentFunc")
      [] OTHER -> [top EXCEPT !.at = "close"]

\* Tree.parseFunc
parseFunc ==
    /\ Running("parseFunc")
    /\ UNCHANGED <<input, pc, Root, err, calls>>
    /\ CASE top.at = "entry" ->
              LET pk == peek(sc) IN
              IF pk.r = "#"
              THEN TailCall(pk.s, Call0("parseLenFunc"))
              ELSE Goto(pk.s, [top EXCEPT !.at = "name"])
         [] top.at = "name" ->
              LET sn == scan([sc EXCEPT !.accept = "acceptIdent", !.mode = {"scanIdent"}])
              IN IF sn.tok = "tokenIdent"
                 THEN Goto(sn.s, [top EXCEPT !.at = "op", !.name = string(sn.s)])
                 ELSE Return(sn.s, NilNode,
                             ErrParse(sn.s.line, context(sn.s),
                                      errorsNew("unable to parse variable name")))
         [] top.at = "op" ->
              LET pk == peek(sc) IN
              TailCall(pk.s, parseFuncDispatch(pk.r, top.name))
         [] top.at = "close" ->
              LET sn == scan([sc EXCEPT !.accept = "acceptIdent", !.mode = {"scanRbrack"}])
              IN IF sn.tok = "tokenRbrack"
                 THEN Return(sn.s, newFuncNode(top.name), NilErr)
                 ELSE Return(sn.s, NilNode,
                             ErrParse(sn.s.line, context(sn.s),
                                      errorsNew("missing closing brace")))

\* Tree.parseParam
parseParam ==
    /\ Running("parseParam")
    /\ UNCHANGED <<input, pc, Root, err, calls>>
    /\ LET sn == scan([sc EXCEPT !.accept = top.accept,
                                 !.mode = top.mode \cup {"scanLbrack"}])
       IN CASE sn.tok = "tokenLbrack" -> TailCall(sn.s, Call0("parseFunc"))
            [] sn.tok \in {"tokenIdent", "tokenRbrack"} ->
                 Return(sn.s, newTextNode(string(sn.s)), NilErr)
            [] OTHER ->
                 Return(sn.s, NilNode, errorsNew("unable to parse substitution"))

\* Tree.parseDefaultOrSubstr
parseDefaultOrSubstr ==
    /\ Running("parseDefaultOrSubstr")
    /\ UNCHANGED <<input, pc, Root, err, calls>>
    /\ CASE top.at = "entry" -> Goto(read(sc).s, [top EXCEPT !.at = "peek"])
         [] top.at = "peek" ->
              LET pk == peek(sc) IN Goto(pk.s, [top EXCEPT !.at = "unread", !.r = pk.r])
         [] top.at = "unread" ->
              IF top.r \in {"=", "-", "?", "+"}
              THEN TailCall(unread(sc), CallName("parseDefaultFunc", top.name))
              ELSE TailCall(unread(sc), CallName("parseSubstrFunc", top.name))

\* the append of an argument, had it kept the argument twice
appendArgTwice(node, param) == [node EXCEPT !.Args = Append(Append(@, param), param)]

\* the append of an argument, had it put the argument in front
appendArgFront(node, param) == [node EXCEPT !.Args = <<param>> \o @]

\* "node.Args = append(node.Args, param)"
appendArg(node, param) == [node EXCEPT !.Args = Append(@, param)]

\* the scan of the operator token shared by the operator sub-parsers:
\* the FuncNode with Name set, or the nil Node when the token is no Ident
scanName(sn, name) ==
    IF sn.tok = "tokenIdent"
    THEN [newFuncNode(name) EXCEPT !.Name = string(sn.s)]
    ELSE NilNode

\* Tree.parseSubstrFunc
parseSubstrFunc ==
    /\ Running("parseSubstrFunc")
    /\ UNCHANGED <<input, pc, Root, err, calls>>
    /\ CASE top.at = "entry" ->
              LET sn == scan([sc EXCEPT !.accept = "acceptOneColon", !.mode = {"scanIdent"}])
                  node == scanName(sn, top.name)
              IN IF node.type # "nil"
                 THEN Invoke(sn.s, [top EXCEPT !.at = "arg1", !.node = node],
                             CallParam("rejectColonClose", {"scanIdent"}))
                 ELSE Return(sn.s, NilNode, ErrBadSubstitution)
         [] top.at = "arg1" ->
              IF ret.err.kind # "nil"
              THEN Return(sc, NilNode, ret.err)
              ELSE LET node == appendArg(top.node, ret.node)
                       sn == scan([sc EXCEPT !.accept = "acceptColon",
                                             !.mode = {"scanIdent", "scanRbrack"}])
                   IN CASE sn.tok = "tokenRbrack" -> Return(sn.s, node, NilErr)
                        [] sn.tok = "tokenIdent" ->
                             Invoke(sn.s, [top EXCEPT !.at = "arg2", !.node = node],
                                    CallParam("acceptNotClosing", {"scanIdent"}))
                        [] OTHER -> Return(sn.s, NilNode, ErrBadSubstitution)
         [] top.at = "arg2" ->
              IF ret.err.kind # "nil"
              THEN Return(sc, NilNode, ret.err)
              ELSE LET cr == consumeRbrack(sc) IN
                   Return(cr.s, appendArg(top.node, ret.node), cr.err)

\* Tree.parseRemoveFunc
parseRemoveFunc ==
    /\ Running("parseRemoveFunc")
    /\ UNCHANGED <<input, pc, Root, err, calls>>
    /\ CASE top.at = "entry" ->
              LET sn == scan([sc EXCEPT !.accept = top.accept, !.mode = {"scanIdent"}])
                  node == scanName(sn, top.name)
              IN IF node.type # "nil"
                 THEN Invoke(sn.s, [top EXCEPT !.at = "arg1", !.node = node],
                             CallParam("acceptNotClosing", {"scanIdent"}))
                 ELSE Return(sn.s, NilNode, ErrBadSubstitution)
         [] top.at = "arg1" ->
              IF ret.err.kind # "nil"
              THEN Return(sc, NilNode, ret.err)
              ELSE LET cr == consumeRbrack(sc) IN
                   Return(cr.s, appendArg(top.node, ret.node), cr.err)

\* Tree.parseReplaceFunc
parseReplaceFunc ==
    /\ Running("parseReplaceFunc")
    /\ UNCHANGED <<input, pc, Root, err, calls>>
    /\ CASE top.at = "entry" ->
              LET sn == scan([sc EXCEPT !.accept = "acceptReplaceFunc", !.mode = {"scanIdent"}])
                  node == scanName(sn, top.name)
              IN IF node.type # "nil"
                 THEN Invoke(sn.s, [top EXCEPT !.at = "arg1", !.node = node],
                             CallParam("acceptNotSlash", {"scanIdent", "scanEscape"}))
                 ELSE Return(sn.s, NilNode, ErrBadSubstitution)
         [] top.at = "arg1" ->
              IF ret.err.kind # "nil"
              THEN Return(sc, NilNode, ret.err)
              ELSE LET sn == scan([sc EXCEPT !.accept = "acceptSlash", !.mode = {"scanIdent"}])
                   IN IF sn.tok = "tokenIdent"
                      THEN Goto(sn.s, [top EXCEPT !.at = "blank",
                                                  !.node = appendArg(top.node, ret.node)])
                      ELSE Return(sn.s, NilNode, ErrBadSubstitution)
         [] top.at = "blank" ->
              LET pk == peek(sc) IN
              IF pk.r = "}"
              THEN Goto(pk.s, [top EXCEPT !.at = "close"])
              ELSE Invoke(pk.s, [top EXCEPT !.at = "arg2"],
                          CallParam("acceptNotClosing", {"scanIdent", "scanEscape"}))
         [] top.at = "close" ->
              LET cr == consumeRbrack(sc) IN Return(cr.s, top.node, cr.err)
         [] top.at = "arg2" ->
              IF ret.err.kind # "nil"
              THEN Return(sc, NilNode, ret.err)
              ELSE LET cr == consumeRbrack(sc) IN
                   Return(cr.s, appendArg(top.node, ret.node), cr.err)

\* Tree.parseDefaultFunc
parseDefaultFunc ==
    /\ Running("parseDefaultFunc")
    /\ UNCHANGED <<input, pc, Root, err, calls>>
    /\ CASE top.at = "entry" ->
              LET pk == peek([sc EXCEPT !.accept = "acceptDefaultFunc"]) IN
              Goto(IF pk.r = "=" THEN [pk.s EXCEPT !.accept = "acceptOneEqual"] ELSE pk.s,
                   [top EXCEPT !.at = "name"])
         [] top.at = "name" ->
              LET sn == scan([sc EXCEPT !.mode = {"scanIdent"}])
                  node == scanName(sn, top.name)
              IN IF node.type # "nil"
                 THEN Goto(sn.s, [top EXCEPT !.at = "loop", !.node = node])
                 ELSE Return(sn.s, NilNode, ErrBadSubstitution)
         [] top.at = "loop" ->
              LET pk == peek(sc) IN
              IF pk.r = "}"
              THEN Goto(pk.s, [top EXCEPT !.at = "close"])
              ELSE Invoke(pk.s, [top EXCEPT !.at = "arg"],
                          CallParam("acceptNotClosing", {"scanIdent"}))
         [] top.at = "close" ->
              LET cr == consumeRbrack(sc) IN Return(cr.s, top.node, cr.err)
         [] top.at = "arg" ->
              IF ret.err.kind # "nil"
              THEN Return(sc, NilNode, ErrParse(sc.line, context(sc), ret.err))
              ELSE Goto(sc, [top EXCEPT !.at = "loop",
                                        !.node = appendArg(top.node, ret.node)])

\* Tree.parseCasingFunc
parseCasingFunc ==
    /\ Running("parseCasingFunc")
    /\ UNCHANGED <<input, pc, Root, err, calls>>
    /\ CASE top.at = "entry" ->
              LET sn == scan([sc EXCEPT !.accept = "acceptCasingFunc", !.mode = {"scanIdent"}])
                  node == scanName(sn, top.name)
              IN IF node.type # "nil"
                 THEN Goto(sn.s, [top EXCEPT !.at = "close", !.node = node])
                 ELSE Return(sn.s, NilNode, ErrBadSubstitution)
         [] top.at = "close" ->
              LET cr == consumeRbrack(sc) IN Return(cr.s, top.node, cr.err)

\* Tree.parseLenFunc
parseLenFunc ==
    /\ Running("parseLenFunc")
    /\ UNCHANGED <<input, pc, Root, err, calls>>
    /\ CASE top.at = "entry" ->
              LET sn == scan([sc EXCEPT !.accept = "acceptOneHash", !.mode = {"scanIdent"}])
              IN IF sn.tok = "tokenIdent"
                 THEN Goto(sn.s, [top EXCEPT !.at = "param",
                                             !.node = [zeroFuncNode EXCEPT !.Name = string(sn.s)]])
                 ELSE Return(sn.s, NilNode, ErrBadSubstitution)
         [] top.at = "param" ->
              LET sn == scan([sc EXCEPT !.accept = "acceptIdent", !.mode = {"scanIdent"}])
              IN IF sn.tok = "tokenIdent"
                 THEN Goto(sn.s, [top EXCEPT !.at = "close", !.node.Param = string(sn.s)])
                 ELSE Return(sn.s, NilNode, ErrBadSubstitution)
         [] top.at = "close" ->
              LET cr == consumeRbrack(sc) IN Return(cr.s, top.node, cr.err)

----------------------------------------------------------------------------
(* The inputs checked: four families of byte strings.                      *)

\* the sequences over S of length at most n
SeqsUpTo(S, n) == UNION {[1..k -> S] : k \in 0..n}

\* the concatenation of a sequence of byte strings
RECURSIVE Flatten(_)
Flatten(ps) == IF ps = <<>> THEN <<>> ELSE Head(ps) \o Flatten(Tail(ps))

\* every byte of the model
Bytes ==
    {"$", "{", "}", ":", "=", "-", "?", "+", ",", "^", "/", "#", "%",
     "BS", "NL", "a", "1", "_", "NUL", "C3", "A9"}

\* the bytes of the top-level text family
TextBytes == {"$", "{", "}", "/", "BS", "a", "NL", "NUL"}

\* every short string over TextBytes
TextInputs == SeqsUpTo(TextBytes, MaxTextLen)

\* operator spellings, valid and invalid
Ops ==
    {<<>>, <<":">>, <<"=">>, <<":", "=">>, <<":", "-">>, <<":", "?">>, <<":", "+">>,
     <<",">>, <<",", ",">>, <<"^">>, <<"^", "^">>, <<",", "^">>,
     <<"/">>, <<"/", "/">>, <<"/", "#">>, <<"/", "%">>,
     <<"#">>, <<"#", "#">>, <<"%">>, <<"%", "%">>}

\* the pieces an argument list is assembled from
ArgPieces ==
    {<<"a">>, <<"$", "{", "a", "}">>, <<":">>, <<"/">>, <<"BS", "/">>, <<"BS", "BS">>,
     <<"C3", "A9">>}

\* ${a<op><pieces>}
FuncInputs ==
    {<<"$", "{", "a">> \o op \o Flatten(ps) \o <<"}">> :
        op \in Ops, ps \in SeqsUpTo(ArgPieces, MaxArgPieces)}

\* ${ and ${a followed by every short string over Bytes
TailInputs ==
    {h \o w : h \in {<<"$", "{">>, <<"$", "{", "a">>}, w \in SeqsUpTo(Bytes, MaxTailLen)}

\* the pieces of a chain of text runs and expansions
ChainPieces ==
    {<<"a">>, <<"}">>, <<"$", "$">>, <<"NL">>, <<"C3", "A9">>, <<"{", "a", "}">>,
     <<"$", "{", "a", "}">>,
     <<"$", "{", "a", ",", ",", "}">>}

ChainInputs == {Flatten(ps) : ps \in SeqsUpTo(ChainPieces, MaxChain)}

\* the bare expansions ${a} and ${b}, each with the tree it stands for
Leaves ==
    {[src |-> <<"$", "{", x, "}">>, tree |-> newFuncNode(<<x>>)] : x \in {"a", "b"}}

\* operators taking one argument: substring, removal, default
OneArgOps == {<<":">>, <<"#">>, <<":", "-">>}

\* operators taking two arguments, with what stands between the two:
\* substring, replacement, default
TwoArgOps ==
    {[op |-> <<":">>, sep |-> <<":">>],
     [op |-> <<"/">>, sep |-> <<"/">>],
     [op |-> <<"=">>, sep |-> <<>>]}

\* ${a<op><p>} with the tree it stands for
Wrap1(op, p) ==
    [src |-> <<"$", "{", "a">> \o op \o p.src \o <<"}">>,
     tree |-> [type |-> "Func", Param |-> <<"a">>, Name |-> op, Args |-> <<p.tree>>]]

\* ${a<op><p><sep><q>} with the tree it stands for
Wrap2(o, p, q) ==
    [src |-> <<"$", "{", "a">> \o o.op \o p.src \o o.sep \o q.src \o <<"}">>,
     tree |-> [type |-> "Func", Param |-> <<"a">>, Name |-> o.op,
               Args |-> <<p.tree, q.tree>>]]

\* the expansions with an argument out of N; a sibling is a bare expansion
NestedOver(N) ==
    {Wrap1(op, p) : op \in OneArgOps, p \in N}
    \cup {Wrap2(o, p, q) : o \in TwoArgOps, p \in N, q \in Leaves}
    \cup {Wrap2(o, p, q) : o \in TwoArgOps, p \in Leaves, q \in N}

\* the expansions nested to depth d
RECURSIVE Nested(_)
Nested(d) == IF d = 0 THEN Leaves ELSE NestedOver(Nested(d - 1))

NestedPairs == UNION {Nested(d) : d \in 1..MaxDepth}

NestedInputs == {p.src : p \in NestedPairs}

Inputs == TextInputs \cup FuncInputs \cup TailInputs \cup ChainInputs \cup NestedInputs

----------------------------------------------------------------------------
(* The state machine.                                                      *)

\* new(scanner): the zero value
zeroScanner ==
    [buf |-> <<>>, pos |-> 0, start |-> 0, width |-> 0, mode |-> {},
     line |-> 0, accept |-> "nil"]

\* a caller that got a single TextNode back calls Parse again, on the
\* Value of that node: Parse(v) builds a new Tree and a new scanner
Reparse ==
    /\ pc = "done"
    /\ calls < MaxCalls
    /\ err.kind = "nil"
    /\ Root.type = "Text"
    /\ input' = Root.Value
    /\ calls' = calls + 1
    /\ sc' = zeroScanner
    /\ stack' = <<>>
    /\ ret' = NoRet
    /\ pc' = "start"
    /\ Root' = NilNode
    /\ err' = NilErr

Init ==
    /\ input \in Inputs
    /\ sc = zeroScanner
    /\ stack = <<>>
    /\ ret = NoRet
    /\ pc = "start"
    /\ Root = NilNode
    /\ err = NilErr
    /\ calls = 1

Next ==
    \/ Parse
    \/ Reparse
    \/ parseAny
    \/ parseFunc
    \/ parseParam
    \/ parseDefaultOrSubstr
    \/ parseSubstrFunc
    \/ parseRemoveFunc
    \/ parseReplaceFunc
    \/ parseDefaultFunc
    \/ parseCasingFunc
    \/ parseLenFunc

Spec == Init /\ [][Next]_vars

\* Parse runs in one goroutine with no suspension point: whenever a next
\* statement exists it is executed
FairSpec == Init /\ [][Next]_vars /\ WF_vars(Next)

----------------------------------------------------------------------------
(* Notions the properties are stated in.                                   *)

\* Parse has returned
Done == pc = "done"

\* Parse has returned a tree and no error
Succeeded == pc = "done" /\ err.kind = "nil"

\* Parse has returned an error
Failed == pc = "done" /\ err.kind # "nil"

\* the node n and every node below it
RECURSIVE SubNodes(_)
SubNodes(n) ==
    {n} \cup
    CASE n.type = "List" -> UNION {SubNodes(n.Nodes[i]) : i \in DOMAIN n.Nodes}
      [] n.type = "Func" -> UNION {SubNodes(n.Args[i]) : i \in DOMAIN n.Args}
      [] OTHER -> {}

\* the FuncNodes of the tree n
FuncNodes(n) == {m \in SubNodes(n) : m.type = "Func"}

\* the number of newline bytes among the first pos bytes of buf
NewlinesBefore(buf, pos) == Cardinality({i \in 1..pos : buf[i] = "NL"})

\* the operator tokens of the grammar
OperatorTokens ==
    {<<>>, <<"#">>, <<"#", "#">>, <<"%">>, <<"%", "%">>, <<":">>,
     <<"/">>, <<"/", "/">>, <<"/", "#">>, <<"/", "%">>,
     <<"=">>, <<":", "=">>, <<":", "-">>, <<":", "?">>, <<":", "+">>,
     <<",">>, <<",", ",">>, <<"^">>, <<"^", "^">>}

\* the operator tokens of the default-value family
DefaultTokens == {<<"=">>, <<":", "=">>, <<":", "-">>, <<":", "?">>, <<":", "+">>}

----------------------------------------------------------------------------
(* C1: at every point of a Parse call the scanner's line counter is 1     *)
(* plus the number of newline bytes before the read position.  The code    *)
(* breaks it: read counts a newline again each time it is read, and only   *)
(* peek takes the count back; unread does not.                             *)
C1_LineCounter ==
    pc # "start" => sc.line = 1 + NewlinesBefore(sc.buf, sc.pos)

(* C2: in every tree a successful Parse returns, the Name of every        *)
(* FuncNode is one of the operator tokens of the grammar.  The code        *)
(* breaks it: acceptCasingFunc takes any two casing characters.            *)
C2_FuncNames ==
    Succeeded => \A n \in FuncNodes(Root) : n.Name \in OperatorTokens

(* C3, as claimed: in every tree a successful Parse returns, every        *)
(* FuncNode has between 0 and 2 entries in Args, the default-value family  *)
(* included.  The loop of parseDefaultFunc appends one entry per text run  *)
(* and per nested expansion of the word, as the tests expect.              *)
C3_ArgsAtMostTwo ==
    Succeeded => \A n \in FuncNodes(Root) : Len(n.Args) <= 2

(* C3, amended: in every tree a successful Parse returns, every FuncNode   *)
(* outside the default-value family has between 0 and 2 entries in Args.   *)
C3_ArgsAtMostTwoOutsideDefault ==
    Succeeded =>
        \A n \in FuncNodes(Root) : n.Name \notin DefaultTokens => Len(n.Args) <= 2

\* a two-argument expansion outside the default-value family was parsed
C3_Witness ==
    /\ Succeeded
    /\ \E n \in FuncNodes(Root) : n.Name \notin DefaultTokens /\ Len(n.Args) = 2

(* C4: every error Parse returns is ErrBadSubstitution or an ErrParse.    *)
(* The code breaks it: parseParam's own error comes back unwrapped from    *)
(* the substring, removal and replacement parsers.                         *)
C4_ErrorKinds ==
    Failed => \/ err.kind = "ErrParse"
              \/ err.kind = "errorString" /\ err.msg = "bad substitution"

\* w holds the two bytes ${ somewhere
HasOpenBytes(w) == \E i \in 1..(Len(w) - 1) : w[i] = "$" /\ w[i + 1] = "{"

\* w holds two adjacent $ bytes
HasDollarPair(w) == \E i \in 1..(Len(w) - 1) : w[i] = "$" /\ w[i + 1] = "$"

\* w holds a backslash directly followed by / or by a backslash
HasBackslashEscape(w) ==
    \E i \in 1..(Len(w) - 1) : w[i] = "BS" /\ w[i + 1] \in {"/", "BS"}

\* w holds a zero byte
HasZeroByte(w) == \E i \in 1..Len(w) : w[i] = "NUL"

(* C5, as claimed: for every input without the two bytes ${, Parse         *)
(* succeeds with a single TextNode whose Value is the input.               *)
C5_TextVerbatim ==
    (Done /\ ~HasOpenBytes(input)) =>
        err.kind = "nil" /\ Root = newTextNode(input)

(* C5, amended: for every non-empty input without ${, without $$,          *)
(* without a backslash followed by / or by a backslash, and without a      *)
(* zero byte, Parse succeeds with a single TextNode whose Value is the     *)
(* input.                                                                  *)
C5_PlainTextVerbatim ==
    (/\ Done
     /\ input # <<>>
     /\ ~HasOpenBytes(input)
     /\ ~HasDollarPair(input)
     /\ ~HasBackslashEscape(input)
     /\ ~HasZeroByte(input)) =>
        err.kind = "nil" /\ Root = newTextNode(input)

\* a text that begins with } and holds // was parsed
C5_Witness ==
    /\ Succeeded
    /\ input = <<"}", "/", "/", "a">>
    /\ Root = newTextNode(input)

\* the index from i on of the first ${ of w that is not the second half
\* of a $$ pair, the pairs taken from the left; 0 when there is none
RECURSIVE FirstOpenFrom(_, _)
FirstOpenFrom(w, i) ==
    IF i >= Len(w)
    THEN 0
    ELSE IF w[i] = "$" /\ w[i + 1] = "$"
         THEN FirstOpenFrom(w, i + 2)
         ELSE IF w[i] = "$" /\ w[i + 1] = "{"
              THEN i
              ELSE FirstOpenFrom(w, i + 1)

\* the top-level text the input begins with: the bytes before its first
\* expansion, or all of it
LeadingText(w) ==
    IF FirstOpenFrom(w, 1) = 0 THEN w ELSE SubSeq(w, 1, FirstOpenFrom(w, 1) - 1)

\* w as top-level text comes out: every $$ pair and every backslash escape,
\* taken from the left, reduced to its second byte
RECURSIVE CollapseText(_)
CollapseText(w) ==
    IF w = <<>>
    THEN <<>>
    ELSE IF Len(w) >= 2 /\ w[1] = "$" /\ w[2] = "$"
         THEN <<"$">> \o CollapseText(SubSeq(w, 3, Len(w)))
         ELSE IF Len(w) >= 2 /\ w[1] = "BS" /\ w[2] \in {"/", "BS"}
              THEN <<w[2]>> \o CollapseText(SubSeq(w, 3, Len(w)))
              ELSE <<w[1]>> \o CollapseText(Tail(w))

(* C6: in the top-level text an input begins with (no zero byte in it),    *)
(* every $$ pair, taken from the left, comes out as one $ of the TextNode, *)
(* and that $ opens no expansion with a { after it: when the text is the   *)
(* whole input the tree is that one TextNode, and when an expansion        *)
(* follows, the TextNode is the first child of the root list.              *)
C6_DollarPairs ==
    (/\ Done
     /\ LeadingText(input) # <<>>
     /\ ~HasZeroByte(LeadingText(input))) =>
        IF FirstOpenFrom(input, 1) = 0
        THEN err.kind = "nil" /\ Root = newTextNode(CollapseText(input))
        ELSE err.kind = "nil" =>
                /\ Root.type = "List"
                /\ Root.Nodes[1] = newTextNode(CollapseText(LeadingText(input)))

\* $${a} was parsed to the text ${a}
C6_Witness ==
    /\ Succeeded
    /\ input = <<"$", "$", "{", "a", "}">>
    /\ Root = newTextNode(<<"$", "{", "a", "}">>)

\* w with every backslash that is followed by / or by a backslash
\* removed, the pairs taken from the left
RECURSIVE CollapseBackslashes(_)
CollapseBackslashes(w) ==
    IF w = <<>>
    THEN <<>>
    ELSE IF Len(w) >= 2 /\ w[1] = "BS" /\ w[2] \in {"/", "BS"}
         THEN <<w[2]>> \o CollapseBackslashes(SubSeq(w, 3, Len(w)))
         ELSE <<w[1]>> \o CollapseBackslashes(Tail(w))

\* arguments that hold a backslash escape
EscArgs ==
    {e \in {Flatten(ps) : ps \in SeqsUpTo({<<"a">>, <<"BS", "/">>, <<"BS", "BS">>}, 2)} :
        HasBackslashEscape(e)}

SubstrTokens == {<<":">>}

RemoveTokens == {<<"#">>, <<"#", "#">>, <<"%">>, <<"%", "%">>}

ReplaceTokens == {<<"/">>, <<"/", "/">>, <<"/", "#">>, <<"/", "%">>}

\* the FuncNode of ${a<op>...} with the text arguments args
FuncOfTexts(op, args) ==
    [type |-> "Func", Param |-> <<"a">>, Name |-> op,
     Args |-> [i \in DOMAIN args |-> newTextNode(args[i])]]

\* Parse of the input shape returned the FuncNode op with arguments args
ParsesTo(shape, op, args) ==
    input = shape => err.kind = "nil" /\ Root = FuncOfTexts(op, args)

\* ${a<op><e>}: the only argument comes out as e (kept) or collapsed
OnlyArg(ops, collapsed) ==
    \A op \in ops, e \in EscArgs :
        ParsesTo(<<"$", "{", "a">> \o op \o e \o <<"}">>, op,
                 <<IF collapsed THEN CollapseBackslashes(e) ELSE e>>)

\* ${a<op><e><sep>a}: the first of two arguments
FirstArg(ops, sep, collapsed) ==
    \A op \in ops, e \in EscArgs :
        ParsesTo(<<"$", "{", "a">> \o op \o e \o <<sep, "a", "}">>, op,
                 <<IF collapsed THEN CollapseBackslashes(e) ELSE e, <<"a">>>>)

\* ${a<op>a<sep><e>}: the second of two arguments
SecondArg(ops, sep, collapsed) ==
    \A op \in ops, e \in EscArgs :
        ParsesTo(<<"$", "{", "a">> \o op \o <<"a", sep>> \o e \o <<"}">>, op,
                 <<<<"a">>, IF collapsed THEN CollapseBackslashes(e) ELSE e>>)

\* an input that is top-level text only, with no $ and no zero byte
PlainText(w) == w # <<>> /\ \A i \in 1..Len(w) : w[i] \notin {"$", "NUL"}

(* C7, as claimed: a backslash followed by / or by a backslash is          *)
(* collapsed in the arguments of replacement and of substring expansions,  *)
(* and kept in top-level text and in the arguments of removal and default  *)
(* expansions.                                                             *)
C7_EscapesInReplaceAndSubstr ==
    Done =>
        /\ PlainText(input) => err.kind = "nil" /\ Root = newTextNode(input)
        /\ FirstArg(ReplaceTokens, "/", TRUE)
        /\ SecondArg(ReplaceTokens, "/", TRUE)
        /\ OnlyArg(SubstrTokens, TRUE)
        /\ SecondArg(SubstrTokens, ":", TRUE)
        /\ OnlyArg(RemoveTokens, FALSE)
        /\ OnlyArg(DefaultTokens, FALSE)

(* C7, amended: a backslash followed by / or by a backslash is collapsed   *)
(* in top-level text and in the arguments of replacement expansions, and   *)
(* kept in the arguments of substring, removal and default expansions.     *)
C7_EscapesInTextAndReplace ==
    Done =>
        /\ PlainText(input) =>
              err.kind = "nil" /\ Root = newTextNode(CollapseBackslashes(input))
        /\ FirstArg(ReplaceTokens, "/", TRUE)
        /\ SecondArg(ReplaceTokens, "/", TRUE)
        /\ OnlyArg(SubstrTokens, FALSE)
        /\ SecondArg(SubstrTokens, ":", FALSE)
        /\ OnlyArg(RemoveTokens, FALSE)
        /\ OnlyArg(DefaultTokens, FALSE)

\* ${a/\//\\} was parsed: both replacement arguments collapsed
C7_Witness ==
    /\ Succeeded
    /\ input = <<"$", "{", "a", "/", "BS", "/", "/", "BS", "BS", "}">>
    /\ Root = FuncOfTexts(<<"/">>, <<<<"/">>, <<"BS">>>>)

\* the steps of the parser that only call peek
PeekStep ==
    /\ pc = "parsing"
    /\ stack # <<>>
    /\ \/ top.fn = "parseFunc" /\ top.at \in {"entry", "op"}
       \/ top.fn = "parseDefaultOrSubstr" /\ top.at = "peek"
       \/ top.fn = "parseReplaceFunc" /\ top.at = "blank"
       \/ top.fn = "parseDefaultFunc" /\ top.at = "loop"

(* C8: peek has no side effect: a step that only calls peek leaves the     *)
(* scanner's buffer, read position, token start, line and last-rune width  *)
(* as they were.  The code breaks it: peek's read sets width to the width  *)
(* of the rune peeked at (0 at the end of input) and nothing restores it.  *)
C8_PeekNoSideEffect ==
    [][PeekStep =>
          /\ sc'.buf = sc.buf
          /\ sc'.pos = sc.pos
          /\ sc'.start = sc.start
          /\ sc'.line = sc.line
          /\ sc'.width = sc.width]_vars

(* C9: every tree a successful Parse returns is well formed: a ListNode    *)
(* has two children, the first a TextNode or a FuncNode, the second a      *)
(* TextNode, a FuncNode or a ListNode (never the empty sentinel), and no   *)
(* entry of a FuncNode's Args is a ListNode.                               *)
C9_WellFormed ==
    Succeeded =>
        \A n \in SubNodes(Root) :
            /\ n.type = "List" =>
                  /\ Len(n.Nodes) = 2
                  /\ n.Nodes[1].type \in {"Text", "Func"}
                  /\ n.Nodes[2].type \in {"Text", "Func", "List"}
            /\ n.type = "Func" =>
                  \A i \in DOMAIN n.Args : n.Args[i].type \in {"Text", "Func"}

\* a chain of three was parsed: a list whose second child is a list
C9_Witness ==
    /\ Succeeded
    /\ Root.type = "List"
    /\ Root.Nodes[2].type = "List"

\* the index of the first $ of w, 0 when there is none
FirstDollar(w) ==
    IF \E i \in 1..Len(w) : w[i] = "$"
    THEN CHOOSE i \in 1..Len(w) : w[i] = "$" /\ \A j \in 1..(i - 1) : w[j] # "$"
    ELSE 0

\* the input is text without a zero byte followed by ${
OpensExpansion(w) ==
    /\ FirstDollar(w) > 0
    /\ FirstDollar(w) < Len(w)
    /\ w[FirstDollar(w) + 1] = "{"
    /\ \A j \in 1..FirstDollar(w) : w[j] # "NUL"

\* the bytes after the ${ the input opens with
AfterOpen(w) == SubSeq(w, FirstDollar(w) + 2, Len(w))

\* the first character of w, "none" when w is empty
FirstRune(w) == IF w = <<>> THEN "none" ELSE DecodeRuneInString(w, 0).r

\* the characters of a variable name
NameRunes == {"a", "b", "1", "_", "E9"}

\* the number of bytes of the longest variable name w begins with
RECURSIVE NameLen(_)
NameLen(w) ==
    IF w = <<>> \/ FirstRune(w) \notin NameRunes
    THEN 0
    ELSE DecodeRuneInString(w, 0).w
         + NameLen(SubSeq(w, DecodeRuneInString(w, 0).w + 1, Len(w)))

\* the bytes after the variable name
AfterName(w) == SubSeq(AfterOpen(w), NameLen(AfterOpen(w)) + 1, Len(AfterOpen(w)))

\* Parse returned an ErrParse with this message
FailedWith(msg) ==
    /\ err.kind = "ErrParse"
    /\ err.err.kind = "errorString"
    /\ err.err.msg = msg

IsReparse == calls > 1

(* C11, as claimed: for every input whose successful parse is a single     *)
(* TextNode with value v, Parse(v) succeeds and again yields a single      *)
(* TextNode with value v.                                                  *)
C11_ReparseIdempotent ==
    (Done /\ IsReparse) => err.kind = "nil" /\ Root = newTextNode(input)

(* C11, amended: for every input whose successful parse is a single        *)
(* TextNode with value v, where v holds no ${, no $$ and no backslash      *)
(* followed by / or by a backslash, Parse(v) succeeds and again yields a   *)
(* single TextNode with value v.                                           *)
C11_ReparsePlainIdempotent ==
    (/\ Done
     /\ IsReparse
     /\ ~HasOpenBytes(input)
     /\ ~HasDollarPair(input)
     /\ ~HasBackslashEscape(input)) =>
        err.kind = "nil" /\ Root = newTextNode(input)

\* the text $/, as a first call returns it for $/ and for $$/, was
\* parsed again, to itself
C11_Witness ==
    /\ Done
    /\ IsReparse
    /\ input = <<"$", "/">>
    /\ Root = newTextNode(input)

(* C12: an argument that begins with ${ is parsed as one complete nested   *)
(* expansion and stored in Args as a FuncNode, at every depth and with     *)
(* siblings in source order: every expansion built from nested expansions  *)
(* in the argument positions of the substring, removal, replacement and    *)
(* default families parses to exactly the tree it is built as.  After the  *)
(* nested argument the outer expansion goes on with its delimiter or its   *)
(* closing brace: text right after it is a bad substitution outside the    *)
(* default family.                                                         *)
C12_NestedArguments ==
    Done =>
        /\ \A p \in NestedPairs :
              input = p.src => err.kind = "nil" /\ Root = p.tree
        /\ \A op \in {<<":">>, <<"#">>} :
              input = <<"$", "{", "a">> \o op \o <<"$", "{", "a", "}", "a", "}">> =>
                  err = ErrBadSubstitution
        /\ input = <<"$", "{", "a", "/", "$", "{", "a", "}", "a", "/", "}">> =>
              err = ErrBadSubstitution

\* ${a/${a:${b}}/${b}} was parsed: a nested expansion that has a nested
\* argument itself, followed by a sibling
C12_Witness ==
    /\ Succeeded
    /\ input = <<"$", "{", "a", "/", "$", "{", "a", ":", "$", "{", "b", "}", "}", "/",
                 "$", "{", "b", "}", "}">>
    /\ Len(Root.Args) = 2
    /\ Root.Args[1].Args = <<newFuncNode(<<"b">>)>>
    /\ Root.Args[2] = newFuncNode(<<"b">>)

\* the number of bytes of the buffer that are still to be read
Remaining(s) == Len(s.buf) - s.pos

\* the step of parseAny from its entry: the scan, then the recursive call,
\* the call of parseFunc, or the return
ParseAnyStep ==
    /\ pc = "parsing"
    /\ stack # <<>>
    /\ top.fn = "parseAny"
    /\ top.at = "entry"

\* the step of parseParam: one argument of an expansion, which is the body
\* of one iteration of the argument loop of parseDefaultFunc
ParseParamStep ==
    /\ pc = "parsing"
    /\ stack # <<>>
    /\ top.fn = "parseParam"

(* C13: Parse terminates on every input: every call of Parse that has      *)
(* started returns, with a tree or with an error.  On the way, every call  *)
(* of parseAny either takes at least one byte from the buffer (by reading  *)
(* it or by an escape skip) or returns, and every argument scanned by      *)
(* parseParam, the body of the loop of parseDefaultFunc, either takes at   *)
(* least one byte or ends the call with an error.                          *)
C13_Terminates ==
    /\ (pc = "start") ~> (pc = "done")
    /\ [][(ParseAnyStep =>
              (Remaining(sc') < Remaining(sc) \/ Len(stack') < Len(stack)))
          /\ (ParseParamStep =>
              (Remaining(sc') < Remaining(sc) \/ ret'.err.kind # "nil"))]_vars

\* ${a:-a${a}a} was parsed: three turns of the argument loop
C13_Witness ==
    /\ Succeeded
    /\ input = <<"$", "{", "a", ":", "-", "a", "$", "{", "a", "}", "a", "}">>
    /\ Len(Root.Args) = 3

(* C14: the scanner reports the end of input only at the end of the       *)
(* buffer, whatever bytes the input holds: whenever Parse succeeds the     *)
(* read position is at the end of the buffer, so no suffix of the input is *)
(* dropped.  The code breaks it: eof is rune(0), so read's result for a    *)
(* zero byte is taken for the end of input by scan and by scanIdent.       *)
C14_AllConsumed ==
    Succeeded => sc.pos = Len(sc.buf)

====
